---------------------------- MODULE Spec2Model ----------------------------
(***************************************************************************)
(* A state-machine model of the SQPnP pose solver (sqpnp.cpp).             *)
(*                                                                         *)
(* Numbers.  The solver works on doubles.  The model keeps image and world  *)
(* coordinates and the accumulated sums as integers, a quotient such as    *)
(* inv(Q) as the exact pair (numerator, denominator), and a tolerance as   *)
(* the exact rational num/den.  A 9-vector (row-major 3x3 matrix) is kept  *)
(* in fixed point: the integer vector v stands for v / Unit, so that a     *)
(* step that is small against a rotation can be told from no step.         *)
(* The eigen-decomposition of Omega and the KKT solve of one SQP step are  *)
(* library / helper results the model draws from bounded sets.             *)
(***************************************************************************)
EXTENDS Integers, Sequences, FiniteSets, TLC

(***************************************************************************)
(* Bounds of the model                                                     *)
(***************************************************************************)
\* longest input sequence drawn by the accumulation specification
MaxLen == 3
\* how far below s_[0] the null-space scan may keep reading
MaxUnderrun == 2
\* how many correction steps of one run of RunSQP the history keeps
MaxSteps == 2

(***************************************************************************)
(* Program constants                                                       *)
(***************************************************************************)
\* std::numeric_limits<double>::max()
DoubleMax == 1000000

\* the denominator of the fixed-point 9-vectors
Unit == 10
Unit2 == Unit * Unit
Unit3 == Unit * Unit * Unit
Unit4 == Unit * Unit * Unit * Unit

\* tolerances of sqpnp.h, each a small positive rational below 1
DEFAULT_SQP_SQUARED_TOLERANCE == [num |-> 1, den |-> 1000]
DEFAULT_RANK_TOLERANCE == [num |-> 1, den |-> 1000]
DEFAULT_ORTHOGONALITY_SQUARED_ERROR_THRESHOLD == [num |-> 1, den |-> 10000]
\* parameters_.sqp_det_threshold, slightly above 1
DEFAULT_SQP_DET_THRESHOLD == [num |-> 101, den |-> 100]

\* x / scale < q, x / scale > q for integers x, scale > 0 and a rational q
\* with q.den > 0
LessThan(x, scale, q) == x * q.den < q.num * scale
GreaterThan(x, scale, q) == x * q.den > q.num * scale

(***************************************************************************)
(* Vectors and matrices                                                    *)
(***************************************************************************)
Idx3 == 0..2
Idx9 == 0..8

\* component j (0-based, as in the source) of a tuple
At(v, j) == v[j + 1]

Zero9 == <<0, 0, 0, 0, 0, 0, 0, 0, 0>>
Zero3 == <<0, 0, 0>>
\* entry (a, b), 0-based, of a matrix kept as the tuple of its rows
Get(M, a, b) == M[a + 1][b + 1]
\* the matrix with rows 0..rows-1 and columns 0..cols-1 and entries F(a, b)
Matrix(rows, cols, F(_, _)) == [a \in 1..rows |-> [b \in 1..cols |-> F(a - 1, b - 1)]]

ZeroEntry(a, b) == 0
Zero99 == Matrix(9, 9, ZeroEntry)
Zero39 == Matrix(3, 9, ZeroEntry)

Neg9(v) == [j \in 1..9 |-> -v[j]]
Add9(a, b) == [j \in 1..9 |-> a[j] + b[j]]
Scale9(k, v) == [j \in 1..9 |-> k * v[j]]
Dot9(a, b) ==
    a[1]*b[1] + a[2]*b[2] + a[3]*b[3] + a[4]*b[4] + a[5]*b[5]
  + a[6]*b[6] + a[7]*b[7] + a[8]*b[8] + a[9]*b[9]
\* delta.squaredNorm()
SquaredNorm9(v) == Dot9(v, v)

\* a 3x9 matrix (numerators) applied to a 9-vector
MatVec39(M, v) ==
    [a \in 1..3 |-> Dot9(M[a], v)]

\* Determinant9x1 of sqpnp_helper.h: determinant of the row-major 3x3 matrix
\* (of a fixed-point vector: in units of 1 / Unit3)
Determinant9x1(r) ==
    At(r,0)*At(r,4)*At(r,8) + At(r,1)*At(r,5)*At(r,6) + At(r,2)*At(r,3)*At(r,7)
  - At(r,6)*At(r,4)*At(r,2) - At(r,7)*At(r,5)*At(r,0) - At(r,8)*At(r,3)*At(r,1)

\* OrthogonalityError of sqpnp_helper.h: squared residual of R*R' = I
\* (of a fixed-point vector: in units of 1 / Unit4)
OrthogonalityError(a) ==
    LET n1 == At(a,0)*At(a,0) + At(a,1)*At(a,1) + At(a,2)*At(a,2)
        n2 == At(a,3)*At(a,3) + At(a,4)*At(a,4) + At(a,5)*At(a,5)
        n3 == At(a,6)*At(a,6) + At(a,7)*At(a,7) + At(a,8)*At(a,8)
        d12 == At(a,0)*At(a,3) + At(a,1)*At(a,4) + At(a,2)*At(a,5)
        d13 == At(a,0)*At(a,6) + At(a,1)*At(a,7) + At(a,2)*At(a,8)
        d23 == At(a,3)*At(a,6) + At(a,4)*At(a,7) + At(a,5)*At(a,8)
    IN  (n1 - Unit2)*(n1 - Unit2) + (n2 - Unit2)*(n2 - Unit2)
        + (n3 - Unit2)*(n3 - Unit2) + 2 * (d12*d12 + d13*d13 + d23*d23)


(***************************************************************************)
(* RotationProjector (sqpnp_helper.h)                                      *)
(***************************************************************************)
\* the rotations the projectors choose from: the 24 signed permutation
\* matrices with determinant +1
Rotations ==
    {
      << 1,  0,  0,  0,  1,  0,  0,  0,  1>>,
      << 1,  0,  0,  0, -1,  0,  0,  0, -1>>,
      <<-1,  0,  0,  0,  1,  0,  0,  0, -1>>,
      <<-1,  0,  0,  0, -1,  0,  0,  0,  1>>,
      << 1,  0,  0,  0,  0,  1,  0, -1,  0>>,
      << 1,  0,  0,  0,  0, -1,  0,  1,  0>>,
      <<-1,  0,  0,  0,  0,  1,  0,  1,  0>>,
      <<-1,  0,  0,  0,  0, -1,  0, -1,  0>>,
      << 0,  1,  0,  1,  0,  0,  0,  0, -1>>,
      << 0,  1,  0, -1,  0,  0,  0,  0,  1>>,
      << 0, -1,  0,  1,  0,  0,  0,  0,  1>>,
      << 0, -1,  0, -1,  0,  0,  0,  0, -1>>,
      << 0,  1,  0,  0,  0,  1,  1,  0,  0>>,
      << 0,  1,  0,  0,  0, -1, -1,  0,  0>>,
      << 0, -1,  0,  0,  0,  1, -1,  0,  0>>,
      << 0, -1,  0,  0,  0, -1,  1,  0,  0>>,
      << 0,  0,  1,  1,  0,  0,  0,  1,  0>>,
      << 0,  0,  1, -1,  0,  0,  0, -1,  0>>,
      << 0,  0, -1,  1,  0,  0,  0, -1,  0>>,
      << 0,  0, -1, -1,  0,  0,  0,  1,  0>>,
      << 0,  0,  1,  0,  1,  0, -1,  0,  0>>,
      << 0,  0,  1,  0, -1,  0,  1,  0,  0>>,
      << 0,  0, -1,  0,  1,  0,  1,  0,  0>>,
      << 0,  0, -1,  0, -1,  0, -1,  0,  0>> }

\* a total order on 9-vectors with entries in -1..1, to break ties
Rank9(r) ==
      (r[1]+1) + 3*(r[2]+1) + 9*(r[3]+1) + 27*(r[4]+1) + 81*(r[5]+1)
    + 243*(r[6]+1) + 729*(r[7]+1) + 2187*(r[8]+1) + 6561*(r[9]+1)

\* R is at least as near to m in the Frobenius norm as R2 is: <R, m> is at
\* least <R2, m>, a tie going to the rotation of lower (higher) rank
NearerLow(R, R2, m) ==
    \/ Dot9(R2, m) < Dot9(R, m)
    \/ Dot9(R2, m) = Dot9(R, m) /\ Rank9(R) <= Rank9(R2)
NearerHigh(R, R2, m) ==
    \/ Dot9(R2, m) < Dot9(R, m)
    \/ Dot9(R2, m) = Dot9(R, m) /\ Rank9(R) >= Rank9(R2)

\* the two interchangeable projectors agree wherever the nearest rotation
\* is unique and may differ on ill-conditioned input; the result is exactly
\* orthogonal, in fixed point
NearestRotationMatrix_SVD(m) ==
    CHOOSE S \in {Scale9(Unit, R) :
                    R \in {R1 \in Rotations :
                             \A R2 \in Rotations : NearerLow(R1, R2, m)}} : TRUE
NearestRotationMatrix_FOAM(m) ==
    CHOOSE S \in {Scale9(Unit, R) :
                    R \in {R1 \in Rotations :
                             \A R2 \in Rotations : NearerHigh(R1, R2, m)}} : TRUE

\* a call through the function pointer NearestRotationMatrix
CallNearestRotationMatrix(method, m) ==
    IF method = "FOAM" THEN NearestRotationMatrix_FOAM(m)
    ELSE NearestRotationMatrix_SVD(m)

(***************************************************************************)
(* Inputs                                                                  *)
(***************************************************************************)
FeaturePoints == {<<1, 0>>, <<0, 1>>}
WorldPoints == {<<1, 0, 1>>, <<0, 1, 1>>}

SeqsUpTo(S, n) == UNION {[1..k -> S] : k \in 0..n}

\* the inputs of the accumulation specification: every pair of sequences
AllFeatureSeqs == SeqsUpTo(FeaturePoints, MaxLen)
AllWorldSeqs == SeqsUpTo(WorldPoints, MaxLen)

\* the inputs of the solver specification
FeaturePool ==
    { <<>>,
      << <<1, 0>>, <<0, 1>> >>,
      << <<1, 0>>, <<0, 1>>, <<1, 0>> >>,
      << <<0, 1>>, <<1, 0>>, <<1, 0>>, <<0, 1>> >> }
WorldPool ==
    { << <<1, 0, 1>>, <<0, 1, 1>> >>,
      << <<1, 0, 1>>, <<0, 1, 1>>, <<0, 1, 1>> >>,
      << <<0, 1, 1>>, <<1, 0, 1>>, <<1, 0, 1>>, <<0, 1, 1>> >> }

\* parameters_: the configuration of the solver
Configs ==
    { [nearest_rotation_method |-> m, sqp_det_threshold |-> DEFAULT_SQP_DET_THRESHOLD]
        : m \in {"FOAM", "SVD"} }

(***************************************************************************)
(* State                                                                   *)
(***************************************************************************)
VARIABLES
    \* solver state that outlives a call
    parameters_, weights_, num_null_vectors, P_, U_, s_, NearestRotationMatrix,
    \* arguments and result of the current (or last) call of SQPnP
    feature_positions, world_point, solution_rotation, solution_translation, ret,
    \* position in SQPnP
    pc,
    \* locals of SQPnP
    i, Omega_, QA, sums, num_null_vectors_l, point_mean, min_sq_error,
    num_eigen_points, c, e, solution, k, loop,
    \* locals of RunSQP
    r, delta_squared_norm, step,
    \* history: what the call has done so far
    deltas, handed, num_handled, num_projected, s_underrun,
    \* history: a reference candidate of an earlier call
    ref

solverVars ==
    <<parameters_, weights_, num_null_vectors, P_, U_, s_, NearestRotationMatrix>>
outVars == <<solution_rotation, solution_translation>>
argVars == <<feature_positions, world_point>>
formVars == <<Omega_, QA, sums>>
scanVars == <<num_null_vectors_l, point_mean, min_sq_error, num_eigen_points,
              c, e, solution, k, loop>>
sqpVars == <<r, delta_squared_norm, step, deltas>>
histVars == <<handed, num_handled, num_projected, s_underrun>>

\* LiGTPositionEstimator: the reconstruction it refers to, its members, the
\* positions map of the caller, the matrix of CreateLinearSystem, the position
\* in EstimatePositions and the index of the track loop
VARIABLES
    reconstruction_, num_triplets_for_view_, linear_system_index_,
    triplets_for_tracks_, BCDs_, positions, constraint_matrix, pc_ligt, track_t,
    \* history: the views in the order AddTripletConstraint first saw them, the
    \* entries accumulated by CreateLinearSystem with the views they stem from
    seen_order, sparse_matrix_entries

\* LagrangeDualRotationEstimator: its members, the arguments of the current
\* call, the solver of the call, the matrices of ComputeErrorBound and the
\* position in EstimateRotations
VARIABLES
    options_, view_id_to_index_, images_num_, view_pairs, global_rotations,
    solver, degree_matrix, adjacency_matrix, pc_ld,
    \* history: the calls made through a null solver
    null_calls

ligtVars ==
    <<reconstruction_, num_triplets_for_view_, linear_system_index_,
      triplets_for_tracks_, BCDs_, positions, constraint_matrix, pc_ligt, track_t,
      seen_order, sparse_matrix_entries>>
ldVars ==
    <<options_, view_id_to_index_, images_num_, view_pairs, global_rotations,
      solver, degree_matrix, adjacency_matrix, pc_ld, null_calls>>
\* the estimators SQPnP does not touch
otherVars == <<ligtVars, ldVars>>
\* the solver and the call of SQPnP, which the other estimators do not touch
sqpnpVars == <<solverVars, outVars, argVars, ret, pc, i, formVars, scanVars,
               sqpVars, histVars, ref>>

vars == <<solverVars, outVars, argVars, ret, pc, i, formVars, scanVars, sqpVars,
          histVars, ref, otherVars>>

None == "none"
\* an empty std::unordered_map
EmptyMap == [x \in {} |-> 0]
\* a matrix that has not been sized
NoMatrix == [rows |-> 0, cols |-> 0, entries |-> {}]

\* a LiGTPositionEstimator after construction, on an empty reconstruction
LiGTInit ==
    /\ reconstruction_ = <<>>
    /\ num_triplets_for_view_ = EmptyMap
    /\ linear_system_index_ = EmptyMap
    /\ triplets_for_tracks_ = EmptyMap
    /\ BCDs_ = EmptyMap
    /\ positions = EmptyMap
    /\ constraint_matrix = NoMatrix
    /\ pc_ligt = "idle"
    /\ track_t = 0
    /\ seen_order = <<>>
    /\ sparse_matrix_entries = {}

\* the solver types of math::SDPSolverOptions, and a value that is none of them
SolverTypes == {"RBR_BCM", "RANK_DEFICIENT_BCM", "RIEMANNIAN_STAIRCASE"}
AnySolverType == SolverTypes \cup {"OTHER"}

\* a LagrangeDualRotationEstimator after construction
LagrangeInit ==
    /\ options_ = [solver_type |-> "RBR_BCM"]
    /\ view_id_to_index_ = EmptyMap
    /\ images_num_ = 0
    /\ view_pairs = {}
    /\ global_rotations = {}
    /\ solver = None
    /\ degree_matrix = EmptyMap
    /\ adjacency_matrix = EmptyMap
    /\ pc_ld = "idle"
    /\ null_calls = {}

\* the content of storage that was never assigned
Indeterminate == <<>>
\* no candidate has been passed to HandleSolution
NoCandidate == [solution |-> <<>>, pos |-> 0, steps |-> <<>>]
\* no reference has been recorded
NoReference == [kind |-> "none"]
\* the point mean before it is computed
NoMean == [num |-> <<0, 0, 0>>, den |-> 1]

\* SQPSolution solution[2], declared and not initialised
FreshSolutions ==
    [j \in 0..1 |-> [r |-> Indeterminate, r_hat |-> Indeterminate,
                     t |-> Indeterminate, num_iterations |-> Indeterminate]]

ZeroSums ==
    [sum_wx |-> 0, sum_wy |-> 0, sum_wx2_plus_wy2 |-> 0, sum_w |-> 0,
     sum_X |-> 0, sum_Y |-> 0, sum_Z |-> 0]

(***************************************************************************)
(* SQPnP: validation and accumulation                                      *)
(***************************************************************************)
\* std::vector::resize(n, v): keeps the first n elements, appends v
Resize(w, n, v) == [j \in 1..n |-> IF j <= Len(w) THEN w[j] ELSE v]

\* a guard of the early return that leaves out the minimum count
InputError_LengthOnly(fp, wp) == Len(wp) # Len(fp)

\* the guard of the early return
InputError(fp, wp) == Len(wp) # Len(fp) \/ Len(wp) < 3 \/ Len(fp) < 3

\* the image point and the world point iteration i of the loop reads
FeatureRead(fp, j) == fp[Len(fp)]
WorldRead(wp, j) == wp[Len(wp)]

\* Mi*Mi'
MMT(M, a, b) == At(M, a) * At(M, b)

\* one iteration of the accumulation loop, for weight w, image point m and
\* world point M
AccumulateBody(acc, w, m, M) ==
    LET wx == At(m, 0) * w
        wy == At(m, 1) * w
        wsq_norm_m == w * (At(m, 0)*At(m, 0) + At(m, 1)*At(m, 1))
        OmegaAdd(rr, cc) ==
            IF rr \in 0..2 /\ cc \in 0..2 /\ rr <= cc THEN w * MMT(M, rr, cc)
            ELSE IF rr \in 0..2 /\ cc \in 6..8 /\ rr <= cc - 6
                 THEN -wx * MMT(M, rr, cc - 6)
            ELSE IF rr \in 3..5 /\ cc \in 6..8 /\ rr - 3 <= cc - 6
                 THEN -wy * MMT(M, rr - 3, cc - 6)
            ELSE IF rr \in 6..8 /\ cc \in 6..8 /\ rr <= cc
                 THEN wsq_norm_m * MMT(M, rr - 6, cc - 6)
            ELSE 0
        QAAdd(a, cc) ==
            IF a = 0 /\ cc \in 0..2 THEN w * At(M, cc)
            ELSE IF a = 0 /\ cc \in 6..8 THEN -wx * At(M, cc - 6)
            ELSE IF a = 1 /\ cc \in 3..5 THEN w * At(M, cc - 3)
            ELSE IF a = 1 /\ cc \in 6..8 THEN -wy * At(M, cc - 6)
            ELSE IF a = 2 /\ cc \in 0..2 THEN -wx * At(M, cc)
            ELSE IF a = 2 /\ cc \in 3..5 THEN -wy * At(M, cc - 3)
            ELSE IF a = 2 /\ cc \in 6..8 THEN wsq_norm_m * At(M, cc - 6)
            ELSE 0
        NewOmega(rr, cc) == Get(acc.Omega_, rr, cc) + OmegaAdd(rr, cc)
        NewQA(a, cc) == Get(acc.QA, a, cc) + QAAdd(a, cc)
    IN  [Omega_ |-> Matrix(9, 9, NewOmega),
         QA |-> Matrix(3, 9, NewQA),
         sums |-> [sum_wx |-> acc.sums.sum_wx + wx,
                   sum_wy |-> acc.sums.sum_wy + wy,
                   sum_wx2_plus_wy2 |-> acc.sums.sum_wx2_plus_wy2 + wsq_norm_m,
                   sum_w |-> acc.sums.sum_w + w,
                   sum_X |-> acc.sums.sum_X + At(M, 0),
                   sum_Y |-> acc.sums.sum_Y + At(M, 1),
                   sum_Z |-> acc.sums.sum_Z + At(M, 2)]]

ZeroForm == [Omega_ |-> Zero99, QA |-> Zero39, sums |-> ZeroSums]

\* Fill-in of the lower triangles of the off-diagonal blocks, of the upper
\* triangle of block (3:5, 3:5), then of the lower triangle of Omega
FillOmega(O) ==
    LET Fill1(a, b) ==
            CASE <<a, b>> = <<1, 6>> -> Get(O, 0, 7)
              [] <<a, b>> = <<2, 6>> -> Get(O, 0, 8)
              [] <<a, b>> = <<2, 7>> -> Get(O, 1, 8)
              [] <<a, b>> = <<4, 6>> -> Get(O, 3, 7)
              [] <<a, b>> = <<5, 6>> -> Get(O, 3, 8)
              [] <<a, b>> = <<5, 7>> -> Get(O, 4, 8)
              [] <<a, b>> = <<7, 6>> -> Get(O, 6, 7)
              [] <<a, b>> = <<8, 6>> -> Get(O, 6, 8)
              [] <<a, b>> = <<8, 7>> -> Get(O, 7, 8)
              [] OTHER -> Get(O, a, b)
        Fill2(a, b) ==
            CASE <<a, b>> = <<3, 3>> -> Fill1(0, 0)
              [] <<a, b>> = <<3, 4>> -> Fill1(0, 1)
              [] <<a, b>> = <<3, 5>> -> Fill1(0, 2)
              [] <<a, b>> = <<4, 4>> -> Fill1(1, 1)
              [] <<a, b>> = <<4, 5>> -> Fill1(1, 2)
              [] <<a, b>> = <<5, 5>> -> Fill1(2, 2)
              [] OTHER -> Fill1(a, b)
        Fill3(a, b) == IF a > b THEN Fill2(b, a) ELSE Fill2(a, b)
    IN  Matrix(9, 9, Fill3)

\* Q = Sum( wi*Qi )
MatrixQ(S) ==
    << <<S.sum_w, 0, -S.sum_wx>>,
       <<0, S.sum_w, -S.sum_wy>>,
       <<-S.sum_wx, -S.sum_wy, S.sum_wx2_plus_wy2>> >>

\* InvertSymmetric3x3 of sqpnp_helper.h, in closed form: inv(Q) = adj / det,
\* kept as the pair of the adjugate and the determinant
InvertSymmetric3x3(Q) ==
    LET a == Get(Q, 0, 0)  b == Get(Q, 1, 0)  d == Get(Q, 1, 1)
        cc == Get(Q, 2, 0)  ee == Get(Q, 2, 1)  f == Get(Q, 2, 2)
    IN  [adj |-> << <<d*f - ee*ee, cc*ee - b*f, b*ee - cc*d>>,
                    <<cc*ee - b*f, a*f - cc*cc, b*cc - a*ee>>,
                    <<b*ee - cc*d, b*cc - a*ee, a*d - b*b>> >>,
         det |-> a*(d*f - ee*ee) - b*(b*f - cc*ee) + cc*(b*ee - cc*d)]

\* P = -Qinv * QA, as the pair (numerators, common denominator)
TranslationMap(Qinv, qa) ==
    LET Entry(a, cc) == -( Get(Qinv.adj, a, 0) * Get(qa, 0, cc)
                         + Get(Qinv.adj, a, 1) * Get(qa, 1, cc)
                         + Get(Qinv.adj, a, 2) * Get(qa, 2, cc) )
    IN  [num |-> Matrix(3, 9, Entry), den |-> Qinv.det]

\* Omega += QA.transpose() * P, over the denominator of P
CompleteOmega(O, qa, P) ==
    LET Entry(rr, cc) == P.den * Get(O, rr, cc)
                         + Get(qa, 0, rr) * Get(P.num, 0, cc)
                         + Get(qa, 1, rr) * Get(P.num, 1, cc)
                         + Get(qa, 2, rr) * Get(P.num, 2, cc)
    IN  [num |-> Matrix(9, 9, Entry), den |-> P.den]

\* P_ * r_hat, over the denominator of P_ and of the fixed-point r_hat
Translation(P, rhat) == [num |-> MatVec39(P.num, rhat), den |-> P.den * Unit]

\* a column of U_ is kept as the fixed-point vector v with the column equal
\* to v / sqrt(3); SQRT3 * column is then v itself
ZeroColumn == [v |-> Zero9, sqrt3_den |-> TRUE]
TimesSQRT3(col) == [v |-> col.v, sqrt3_den |-> FALSE]

LocalsReset ==
    /\ i' = 0
    /\ Omega_' = [num |-> Zero99, den |-> 1]
    /\ QA' = Zero39
    /\ sums' = ZeroSums
    /\ num_null_vectors_l' = 0
    /\ point_mean' = NoMean
    /\ min_sq_error' = DoubleMax
    /\ num_eigen_points' = 0
    /\ c' = 0
    /\ e' = ZeroColumn
    /\ solution' = FreshSolutions
    /\ k' = 0
    /\ loop' = None
    /\ r' = Zero9
    /\ delta_squared_norm' = DoubleMax
    /\ step' = 0
    /\ deltas' = <<>>
    /\ handed' = NoCandidate
    /\ num_handled' = 0
    /\ num_projected' = 0
    /\ s_underrun' = FALSE

Init ==
    /\ parameters_ \in Configs
    /\ weights_ = <<>>
    /\ num_null_vectors = 0
    /\ P_ = [num |-> Zero39, den |-> 1]
    /\ U_ = [j \in 1..9 |-> ZeroColumn]
    /\ s_ = Zero9
    /\ NearestRotationMatrix = None
    /\ feature_positions = <<>>
    /\ world_point = <<>>
    /\ solution_rotation = <<>>
    /\ solution_translation = <<>>
    /\ ret = FALSE
    /\ pc = "idle"
    /\ i = 0
    /\ Omega_ = [num |-> Zero99, den |-> 1]
    /\ QA = Zero39
    /\ sums = ZeroSums
    /\ num_null_vectors_l = 0
    /\ point_mean = NoMean
    /\ min_sq_error = DoubleMax
    /\ num_eigen_points = 0
    /\ c = 0
    /\ e = ZeroColumn
    /\ solution = FreshSolutions
    /\ k = 0
    /\ loop = None
    /\ r = Zero9
    /\ delta_squared_norm = DoubleMax
    /\ step = 0
    /\ deltas = <<>>
    /\ handed = NoCandidate
    /\ num_handled = 0
    /\ num_projected = 0
    /\ s_underrun = FALSE
    /\ ref = NoReference
    /\ LiGTInit
    /\ LagrangeInit

\* SQPnP is called with fp and wp: the early return, or the set-up of the
\* accumulation
Call(fp, wp) ==
    /\ pc \in {"idle", "done"}
    /\ feature_positions' = fp
    /\ world_point' = wp
    /\ LocalsReset
    /\ IF InputError(fp, wp)
       THEN /\ ret' = FALSE
            /\ pc' = "done"
            /\ UNCHANGED <<weights_, num_null_vectors>>
       ELSE /\ weights_' = Resize(weights_, Len(wp), 1)
            /\ num_null_vectors' = -1
            /\ ret' = FALSE
            /\ pc' = "acc"
    /\ UNCHANGED <<otherVars, parameters_, P_, U_, s_, NearestRotationMatrix,
                   outVars, ref>>

\* one iteration of the accumulation loop
Accumulate ==
    /\ pc = "acc"
    /\ i < Len(world_point)
    /\ LET acc == AccumulateBody([Omega_ |-> Omega_.num, QA |-> QA, sums |-> sums],
                                 At(weights_, i),
                                 FeatureRead(feature_positions, i),
                                 WorldRead(world_point, i))
       IN  /\ Omega_' = [num |-> acc.Omega_, den |-> 1]
           /\ QA' = acc.QA
           /\ sums' = acc.sums
    /\ i' = i + 1
    /\ UNCHANGED <<otherVars, solverVars, outVars, argVars, ret, pc, scanVars, sqpVars,
                   histVars, ref>>

\* after the loop: the fill-in of Omega, Q, its inverse, P_ and the rank update
FinishForm ==
    /\ pc = "acc"
    /\ i >= Len(world_point)
    /\ LET P == TranslationMap(InvertSymmetric3x3(MatrixQ(sums)), QA)
       IN  /\ P_' = P
           /\ Omega_' = CompleteOmega(FillOmega(Omega_.num), QA, P)
    /\ pc' = "decompose"
    /\ UNCHANGED <<otherVars, parameters_, weights_, num_null_vectors, U_, s_,
                   NearestRotationMatrix, outVars, argVars, ret, i, QA, sums,
                   scanVars, sqpVars, histVars, ref>>

\* the accumulation alone, on every pair of input sequences
FirstCall == \E fp \in AllFeatureSeqs, wp \in AllWorldSeqs : pc = "idle" /\ Call(fp, wp)

NextAccum ==
    \/ FirstCall
    \/ Accumulate
    \/ FinishForm

SpecAccum == Init /\ [][NextAccum]_vars

(***************************************************************************)
(* The accumulated form as a function of the inputs                        *)
(***************************************************************************)
\* the accumulation loop run for n iterations on (fp, wp) with weights w
RECURSIVE AccumulatedForm(_, _, _, _)
AccumulatedForm(fp, wp, w, n) ==
    IF n = 0 THEN ZeroForm
    ELSE AccumulateBody(AccumulatedForm(fp, wp, w, n - 1), w[n],
                        FeatureRead(fp, n - 1), WorldRead(wp, n - 1))

\* the form the loop has accumulated so far
CurrentForm == [Omega_ |-> Omega_.num, QA |-> QA, sums |-> sums]

\* the accumulation loop has ended and the fill-in has not started
AfterAccumulation == pc = "acc" /\ i = Len(world_point)

\* the sum over j = 1..n of the contribution of correspondence j
RECURSIVE SumOfContributions(_, _, _, _)
SumOfContributions(fp, wp, w, n) ==
    IF n = 0 THEN ZeroForm
    ELSE AccumulateBody(SumOfContributions(fp, wp, w, n - 1), w[n], fp[n], wp[n])

IndexPermutations(n) == {p \in [1..n -> 1..n] : \A a, b \in 1..n : p[a] = p[b] => a = b}
Permuted(q, p) == [j \in 1..Len(q) |-> q[p[j]]]

\* C4: after the accumulation loop every accumulated quantity is the sum over
\* the correspondences i = 0..n-1 of the contribution of correspondence i
\* (feature_positions[i], world_point[i]) with weight i.
C4_SumOverCorrespondences ==
    AfterAccumulation =>
        CurrentForm = SumOfContributions(feature_positions, world_point, weights_,
                                         Len(world_point))

\* C5: permuting both input sequences by the same permutation leaves the
\* accumulated form unchanged.
C5_PermutationInvariant ==
    AfterAccumulation =>
        \A p \in IndexPermutations(Len(world_point)) :
            AccumulatedForm(Permuted(feature_positions, p), Permuted(world_point, p),
                            weights_, Len(world_point)) = CurrentForm

(***************************************************************************)
(* SQPnP: decomposition and null space                                     *)
(***************************************************************************)
\* representative directions a column of U_ can hold: a rotation, a
\* reflection and a matrix that is not orthogonal
EigenRotation == Scale9(Unit, <<1, 0, 0,  0, 1, 0,  0, 0, 1>>)
EigenReflection == Scale9(Unit, <<1, 0, 0,  0, 1, 0,  0, 0, -1>>)
EigenSkew == Scale9(Unit, <<1, 1, 0,  0, 1, 0,  0, 0, 1>>)

Column(v) == [v |-> v, sqrt3_den |-> TRUE]

Bases ==
    { [j \in 1..9 |-> Column(EigenSkew)],
      [j \in 1..9 |-> Column(IF j % 2 = 0 THEN EigenRotation ELSE EigenReflection)],
      [j \in 1..9 |-> Column(IF j % 3 = 0 THEN EigenSkew
                             ELSE IF j % 3 = 1 THEN EigenRotation
                             ELSE EigenReflection)] }

\* singular values in descending order: z zeros at the end, 2 in the first h
\* places and 1 between
Spectrum(z, h) ==
    [j \in 1..9 |-> IF j > 9 - z THEN 0 ELSE IF j <= h THEN 2 ELSE 1]

Spectra == {Spectrum(z, 0) : z \in {0, 2, 3, 4, 5, 6, 7, 9}} \cup {Spectrum(1, 4)}

\* what Eigen::JacobiSVD may return for Omega_
Decompositions == {[U |-> B, s |-> sp] : B \in Bases, sp \in Spectra}

\* svd.matrixU(), svd.singularValues(), and the local counter of the scan
Decompose(d) ==
    /\ pc = "decompose"
    /\ U_' = d.U
    /\ s_' = d.s
    /\ num_null_vectors_l' = 0
    /\ pc' = "nullscan"
    /\ UNCHANGED <<otherVars, parameters_, weights_, num_null_vectors, P_,
                   NearestRotationMatrix,
                   outVars, argVars, ret, i, formVars, point_mean, min_sq_error,
                   num_eigen_points, c, e, solution, k, loop, sqpVars,
                   histVars, ref>>

\* a scan that starts at the smallest singular value
ScanIndex_FromSmallest == 8 - num_null_vectors_l

\* the index the scan reads
ScanIndex == 7 - num_null_vectors_l

\* one iteration of  while (s_[7 - num_null_vectors] < DEFAULT_RANK_TOLERANCE).
\* A read outside s_[0..8] yields any value: here one below the tolerance.
NullScanStep ==
    /\ pc = "nullscan"
    /\ IF ScanIndex \in Idx9
       THEN /\ LessThan(At(s_, ScanIndex), 1, DEFAULT_RANK_TOLERANCE)
            /\ UNCHANGED s_underrun
       ELSE /\ ScanIndex > -MaxUnderrun
            /\ s_underrun' = TRUE
    /\ num_null_vectors_l' = num_null_vectors_l + 1
    /\ UNCHANGED <<otherVars, solverVars, outVars, argVars, ret, pc, i, formVars, point_mean,
                   min_sq_error, num_eigen_points, c, e, solution, k, loop,
                   sqpVars, handed, num_handled, num_projected, ref>>

\* the scan loop ends: the value read is not below the tolerance (any value,
\* when read outside s_[0..8])
ScanEnds ==
    /\ pc = "nullscan"
    /\ ScanIndex \in Idx9 => ~LessThan(At(s_, ScanIndex), 1, DEFAULT_RANK_TOLERANCE)

\* a null-space test with the bound off by one
NullSpaceExceeded_Seven(n) == n > 7

\* the test of  if (++num_null_vectors > 6)  on the incremented counter
NullSpaceExceeded(n) == n > 6

\* if (++num_null_vectors > 6) return false;
NullSpaceTooLarge ==
    /\ ScanEnds
    /\ NullSpaceExceeded(num_null_vectors_l + 1)
    /\ num_null_vectors_l' = num_null_vectors_l + 1
    /\ s_underrun' = (s_underrun \/ ScanIndex \notin Idx9)
    /\ ret' = FALSE
    /\ pc' = "done"
    /\ UNCHANGED <<otherVars, solverVars, outVars, argVars, i, formVars, point_mean,
                   min_sq_error, num_eigen_points, c, e, solution, k, loop,
                   sqpVars, handed, num_handled, num_projected, ref>>

\* the point mean, the choice of the projector and the set-up of the search
BeginSearch ==
    /\ ScanEnds
    /\ ~NullSpaceExceeded(num_null_vectors_l + 1)
    /\ num_null_vectors_l' = num_null_vectors_l + 1
    /\ s_underrun' = (s_underrun \/ ScanIndex \notin Idx9)
    /\ point_mean' = [num |-> <<sums.sum_X, sums.sum_Y, sums.sum_Z>>,
                      den |-> Len(world_point)]
    /\ NearestRotationMatrix' =
          IF parameters_.nearest_rotation_method = "FOAM" THEN "FOAM" ELSE "SVD"
    /\ min_sq_error' = DoubleMax
    /\ num_eigen_points' =
          IF num_null_vectors_l' > 0 THEN num_null_vectors_l' ELSE 1
    /\ i' = 9 - num_eigen_points'
    /\ loop' = "scan"
    /\ pc' = "phase1"
    /\ UNCHANGED <<otherVars, parameters_, weights_, num_null_vectors, P_, U_, s_, outVars,
                   argVars, ret, formVars, c, e, solution, k, sqpVars,
                   handed, num_handled, num_projected, ref>>

(***************************************************************************)
(* RunSQP                                                                  *)
(***************************************************************************)
\* how far an entry of an iterate may move away from -Unit..Unit
MaxEntry == 3

\* SQPSolution solutions[18]
MaxSolutions == 18

\* the product of the 3x3 matrices a and b, row-major
Mul9(a, b) ==
    [j \in 1..9 |->
        LET row == (j - 1) \div 3
            col == (j - 1) % 3
        IN  At(a, 3*row) * At(b, col) + At(a, 3*row + 1) * At(b, 3 + col)
            + At(a, 3*row + 2) * At(b, 6 + col)]

\* the skew-symmetric generator of a turn by w / Unit about the third axis
Skew(w) == <<0, -w, 0,  w, 0, 0,  0, 0, 0>>

\* SolveSQPSystem of sqpnp_helper.h: the correction steps it may return at r.
\* A step keeps the orthogonality constraints to first order, so it lies in
\* the tangent space at the rotation r is at (or next to): no step, a step
\* that is small against the rotation, in either sense, and a large one.
Deltas(rr) ==
    UNION { {Mul9(base, Skew(w)) : w \in {0, 1, -1, Unit}} :
              base \in {R1 \in Rotations :
                          \A R2 \in Rotations : NearerLow(R1, R2, rr)} }

InRange(v) == \A j \in 1..9 : v[j] >= -(Unit + MaxEntry) /\ v[j] <= Unit + MaxEntry

\* the first conjunct of the loop condition
AboveTolerance ==
    GreaterThan(delta_squared_norm, Unit2, DEFAULT_SQP_SQUARED_TOLERANCE)
\* the second conjunct, evaluated only when the first holds: the comparison of
\* step++ < DEFAULT_SQP_SQUARED_TOLERANCE
BelowCap(st) == LessThan(st, 1, DEFAULT_SQP_SQUARED_TOLERANCE)

\* a step counter that is never incremented
NextStep_Stuck(st) == st

\* and its side effect, step++
NextStep(st) == st + 1

\* the value of step when the loop is left
StepAtExit(above, st) == IF above THEN NextStep(st) ELSE st

\* a result whose sign is never corrected
RunSQPResult_NoFlip(rr, st, method, det_threshold) ==
    LET det_r == Determinant9x1(rr)
    IN  [num_iterations |-> st,
         r |-> rr,
         r_hat |-> IF GreaterThan(det_r, Unit3, det_threshold)
                   THEN CallNearestRotationMatrix(method, rr)
                   ELSE rr,
         t |-> Indeterminate]

\* what RunSQP returns for the final iterate rr and step count st; t is not
\* assigned by RunSQP
RunSQPResult(rr, st, method, det_threshold) ==
    LET det_r == Determinant9x1(rr)
        sr == IF det_r < 0 THEN Neg9(rr) ELSE rr
        det_abs == IF det_r < 0 THEN -det_r ELSE det_r
    IN  [num_iterations |-> st,
         r |-> sr,
         r_hat |-> IF GreaterThan(det_abs, Unit3, det_threshold)
                   THEN CallNearestRotationMatrix(method, sr)
                   ELSE sr,
         t |-> Indeterminate]

\* what stays as it is while the candidates are searched
searchFrame ==
    <<otherVars, parameters_, weights_, num_null_vectors, P_, U_, s_, NearestRotationMatrix,
      outVars, argVars, ret, formVars, num_null_vectors_l, point_mean,
      num_eigen_points, s_underrun>>

\* one iteration of the loop of RunSQP: SolveSQPSystem(r, delta); r += delta
SQPIterate ==
    /\ pc = "sqp"
    /\ AboveTolerance /\ BelowCap(step)
    /\ step' = NextStep(step)
    /\ \E delta \in Deltas(r) :
          /\ InRange(Add9(r, delta))
          /\ r' = Add9(r, delta)
          /\ delta_squared_norm' = SquaredNorm9(delta)
          /\ deltas' = IF Len(deltas) < MaxSteps THEN Append(deltas, delta)
                        ELSE deltas
    /\ UNCHANGED <<searchFrame, ref, pc, i, min_sq_error, c, e, solution, k, loop,
                   handed, num_handled, num_projected>>

\* the loop of RunSQP is left and RunSQP returns into solution[k]
SQPReturn ==
    /\ pc = "sqp"
    /\ ~(AboveTolerance /\ BelowCap(step))
    /\ solution' = [solution EXCEPT
                      ![k] = RunSQPResult(r, StepAtExit(AboveTolerance, step),
                                          NearestRotationMatrix,
                                          parameters_.sqp_det_threshold)]
    /\ r' = Zero9
    /\ delta_squared_norm' = DoubleMax
    /\ step' = 0
    /\ pc' = "trans"
    /\ UNCHANGED <<searchFrame, ref, i, min_sq_error, c, e, k, loop, deltas,
                   handed, num_handled, num_projected>>

(***************************************************************************)
(* SQPnP: the search                                                       *)
(***************************************************************************)
\* the costs HandleSolution may compute for a candidate
Costs == {0, 4, 7}

\* what uninitialised storage of a 9-vector may hold
IndeterminateVectors == {Zero9, EigenSkew}

\* HandleSolution of sqpnp.h: the running minimum after a candidate of cost
\* cost was scored
HandleSolution(cost, min) == IF cost < min THEN cost ELSE min

\* the candidate HandleSolution receives: solution[j] as stored, a field that
\* was never assigned holding any value
Received(sol, garbage) ==
    [r |-> IF sol.r = Indeterminate THEN garbage ELSE sol.r,
     r_hat |-> sol.r_hat,
     t |-> sol.t,
     num_iterations |-> sol.num_iterations]

\* the eigenvector of the first phase: e = SQRT3 * U_.block<9, 1>(0, i)
ScanVector == TimesSQRT3(At(U_, i))

NearlyOrthogonal(ev) ==
    LessThan(OrthogonalityError(ev.v), Unit4,
             DEFAULT_ORTHOGONALITY_SQUARED_ERROR_THRESHOLD)

\* a candidate accepted without the sign of its determinant
DirectSolution_Unsigned(ev, P) ==
    [r |-> Indeterminate, r_hat |-> ev.v, t |-> Translation(P, ev.v),
     num_iterations |-> 0]

\* the candidate accepted without SQP; Determinant9x1(e) * e in fixed point
DirectSolution(ev, P) ==
    LET det_e == Determinant9x1(ev.v)
        rhat == [j \in 1..9 |-> (det_e * ev.v[j]) \div Unit3]
    IN  [r |-> Indeterminate, r_hat |-> rhat, t |-> Translation(P, rhat),
         num_iterations |-> 0]

\* first phase, e nearly orthogonal: solution[0] is filled in directly
ScanDirect ==
    /\ pc = "phase1"
    /\ i < 9
    /\ NearlyOrthogonal(ScanVector)
    /\ e' = ScanVector
    /\ solution' = [FreshSolutions EXCEPT ![0] = DirectSolution(ScanVector, P_)]
    /\ k' = 0
    /\ handed' = NoCandidate
    /\ pc' = "accept"
    /\ UNCHANGED <<searchFrame, ref, i, min_sq_error, c, loop, sqpVars, num_handled,
                   num_projected>>

\* first phase, e not orthogonal: two refinements follow
ScanRefine ==
    /\ pc = "phase1"
    /\ i < 9
    /\ ~NearlyOrthogonal(ScanVector)
    /\ e' = ScanVector
    /\ solution' = FreshSolutions
    /\ k' = 0
    /\ handed' = NoCandidate
    /\ pc' = "project"
    /\ UNCHANGED <<searchFrame, ref, i, min_sq_error, c, loop, sqpVars, num_handled,
                   num_projected>>

\* the first phase is over: int c = 1
ScanDone ==
    /\ pc = "phase1"
    /\ ~(i < 9)
    /\ c' = 1
    /\ loop' = "expand"
    /\ e' = ZeroColumn
    /\ solution' = FreshSolutions
    /\ handed' = NoCandidate
    /\ pc' = "expand"
    /\ UNCHANGED <<searchFrame, ref, i, min_sq_error, k, sqpVars, num_handled,
                   num_projected>>

\* NearestRotationMatrix(e, solution[0].r) or NearestRotationMatrix(-e,
\* solution[1].r), then the entry of RunSQP(solution[k].r).  The projection of
\* a positive multiple of a matrix is the projection of the matrix.
Project ==
    /\ pc = "project"
    /\ LET proj == CallNearestRotationMatrix(NearestRotationMatrix,
                                             IF k = 0 THEN e.v ELSE Neg9(e.v))
       IN  /\ solution' = [solution EXCEPT ![k].r = proj]
           /\ r' = proj
    /\ delta_squared_norm' = DoubleMax
    /\ step' = 0
    /\ deltas' = <<>>
    /\ num_projected' = num_projected + 1
    /\ handed' = NoCandidate
    /\ pc' = "sqp"
    /\ UNCHANGED <<searchFrame, ref, i, min_sq_error, c, e, k, loop, num_handled>>

\* a translation that is not computed after RunSQP has returned
TranslationOf_Stale(P, sol) == sol.t

\* the translation of a refined candidate: P_ * solution[k].r_hat
TranslationOf(P, sol) == Translation(P, sol.r_hat)

\* solution[k].t = P_ * solution[k].r_hat
Translate ==
    /\ pc = "trans"
    /\ solution' = [solution EXCEPT ![k].t = TranslationOf(P_, solution[k])]
    /\ pc' = "handle"
    /\ UNCHANGED <<searchFrame, ref, i, min_sq_error, c, e, k, loop, sqpVars, handed,
                   num_handled, num_projected>>

\* the effect of HandleSolution(solution[k], min_sq_error)
Scored ==
    \E cost \in Costs, garbage \in IndeterminateVectors :
        /\ min_sq_error' = HandleSolution(cost, min_sq_error)
        /\ handed' = [solution |-> Received(solution[k], garbage),
                      pos |-> num_handled + 1,
                      steps |-> deltas]
        /\ num_handled' = num_handled + 1
        /\ deltas' = <<>>

\* a reference is recorded once: the candidate just handed over, with the
\* call it belongs to, or the value a call returned
ObserveCandidate ==
    ref' \in IF ref # NoReference THEN {ref}
             ELSE {ref, [kind |-> "candidate", fp |-> feature_positions,
                         wp |-> world_point, U |-> U_, s |-> s_,
                         pos |-> handed'.pos, steps |-> handed'.steps,
                         value |-> handed'.solution]}
ObserveReturn ==
    ref' \in IF ref # NoReference THEN {ref}
             ELSE {ref, [kind |-> "return", fp |-> feature_positions,
                         wp |-> world_point, U |-> U_, s |-> s_,
                         pos |-> 0, steps |-> <<>>, value |-> ret']}

\* HandleSolution on the directly accepted candidate, then the next index
HandleDirectCall(observed) ==
    /\ pc = "accept"
    /\ Scored
    /\ i' = i + 1
    /\ pc' = "phase1"
    /\ IF observed THEN ObserveCandidate ELSE UNCHANGED ref
    /\ UNCHANGED <<searchFrame, c, e, solution, k, loop, r, delta_squared_norm,
                   step, num_projected>>

HandleDirect == HandleDirectCall(FALSE)

\* a search that moves on without scoring the refined candidate
HandleRefinedCall_Unscored(observed) ==
    /\ pc = "handle"
    /\ UNCHANGED <<min_sq_error, handed, num_handled, deltas>>
    /\ IF k = 0
       THEN /\ k' = 1
            /\ pc' = "project"
            /\ UNCHANGED <<i, c>>
       ELSE /\ k' = k
            /\ IF loop = "scan"
               THEN i' = i + 1 /\ pc' = "phase1" /\ c' = c
               ELSE c' = c + 1 /\ pc' = "expand" /\ i' = i
    /\ IF observed THEN ObserveCandidate ELSE UNCHANGED ref
    /\ UNCHANGED <<searchFrame, e, solution, loop, r, delta_squared_norm, step,
                   num_projected>>

\* HandleSolution on a refined candidate: after solution[0] the refinement of
\* -e follows, after solution[1] the next index of the loop
HandleRefinedCall(observed) ==
    /\ pc = "handle"
    /\ Scored
    /\ IF k = 0
       THEN /\ k' = 1
            /\ pc' = "project"
            /\ UNCHANGED <<i, c>>
       ELSE /\ k' = k
            /\ IF loop = "scan"
               THEN i' = i + 1 /\ pc' = "phase1" /\ c' = c
               ELSE c' = c + 1 /\ pc' = "expand" /\ i' = i
    /\ IF observed THEN ObserveCandidate ELSE UNCHANGED ref
    /\ UNCHANGED <<searchFrame, e, solution, loop, r, delta_squared_norm, step,
                   num_projected>>

HandleRefined == HandleRefinedCall(FALSE)

\* an index that does not follow the loop counter
ExpandIndex_Stuck == 9 - num_eigen_points - 1

\* the index the adaptive expansion looks at
ExpandIndex == 9 - num_eigen_points - c

\* a loop condition without the test of the index
ExpandCondition_CostOnly == min_sq_error > 3 * At(s_, ExpandIndex)

\* the condition of the expansion loop
ExpandCondition == min_sq_error > 3 * At(s_, ExpandIndex) /\ ExpandIndex > 0

\* an expansion step that rescales the eigenvector inside U_
Expand_ScalingInPlace ==
    /\ pc = "expand"
    /\ ExpandCondition
    /\ U_' = [U_ EXCEPT ![ExpandIndex + 1] = TimesSQRT3(At(U_, ExpandIndex))]
    /\ e' = TimesSQRT3(At(U_, ExpandIndex))
    /\ solution' = FreshSolutions
    /\ k' = 0
    /\ handed' = NoCandidate
    /\ pc' = "project"
    /\ UNCHANGED <<otherVars, parameters_, weights_, num_null_vectors, P_, s_,
                   NearestRotationMatrix, outVars, argVars, ret, formVars,
                   num_null_vectors_l, point_mean, num_eigen_points, s_underrun,
                   ref, i, min_sq_error, c, loop, sqpVars, num_handled,
                   num_projected>>

\* one more eigenvector is refined in both signs
Expand ==
    /\ pc = "expand"
    /\ ExpandCondition
    /\ e' = At(U_, ExpandIndex)
    /\ solution' = FreshSolutions
    /\ k' = 0
    /\ handed' = NoCandidate
    /\ pc' = "project"
    /\ UNCHANGED <<searchFrame, ref, i, min_sq_error, c, loop, sqpVars, num_handled,
                   num_projected>>

\* the expansion loop ends and control reaches the closing brace of SQPnP
\* without a return statement: the caller reads any value.  The locals of
\* the search are gone.
FallOffEndCall(observed) ==
    /\ pc = "expand"
    /\ ~ExpandCondition
    /\ ret' \in BOOLEAN
    /\ i' = 0
    /\ c' = 0
    /\ e' = ZeroColumn
    /\ solution' = FreshSolutions
    /\ k' = 0
    /\ loop' = None
    /\ min_sq_error' = DoubleMax
    /\ handed' = NoCandidate
    /\ pc' = "done"
    /\ UNCHANGED <<otherVars, parameters_, weights_, num_null_vectors, P_, U_, s_,
                   NearestRotationMatrix, outVars, argVars, formVars,
                   num_null_vectors_l, point_mean, num_eigen_points, s_underrun,
                   sqpVars, num_handled, num_projected>>
    /\ IF observed THEN ObserveReturn ELSE UNCHANGED ref

FallOffEnd == FallOffEndCall(FALSE)

(***************************************************************************)
(* Specifications                                                          *)
(***************************************************************************)
CallSQPnP == \E fp \in FeaturePool, wp \in WorldPool : Call(fp, wp)
DecomposeOmega == \E d \in Decompositions : Decompose(d)

Next ==
    \/ CallSQPnP
    \/ Accumulate
    \/ FinishForm
    \/ DecomposeOmega
    \/ NullScanStep
    \/ NullSpaceTooLarge
    \/ BeginSearch
    \/ ScanDirect
    \/ ScanRefine
    \/ ScanDone
    \/ Project
    \/ SQPIterate
    \/ SQPReturn
    \/ Translate
    \/ HandleDirect
    \/ HandleRefined
    \/ Expand
    \/ FallOffEnd

Spec == Init /\ [][Next]_vars

(***************************************************************************)
(* The solver on two inputs and two decompositions                         *)
(***************************************************************************)
SmallFeatures == { <<>>, << <<1, 0>>, <<0, 1>>, <<1, 0>> >> }
SmallWorld == { << <<1, 0, 1>>, <<0, 1, 1>>, <<0, 1, 1>> >> }

SmallBasis ==
    [j \in 1..9 |-> Column(IF j % 3 = 0 THEN EigenSkew
                           ELSE IF j % 3 = 1 THEN EigenRotation
                           ELSE EigenReflection)]
SmallDecompositions ==
    { [U |-> SmallBasis, s |-> Spectrum(2, 0)],
      [U |-> SmallBasis, s |-> Spectrum(8, 0)] }

CallSmall == \E fp \in SmallFeatures, wp \in SmallWorld : Call(fp, wp)
DecomposeSmall == \E d \in SmallDecompositions : Decompose(d)

NextSmall ==
    \/ CallSmall
    \/ Accumulate
    \/ FinishForm
    \/ DecomposeSmall
    \/ NullScanStep
    \/ NullSpaceTooLarge
    \/ BeginSearch
    \/ ScanDirect
    \/ ScanRefine
    \/ ScanDone
    \/ Project
    \/ SQPIterate
    \/ SQPReturn
    \/ Translate
    \/ HandleDirect
    \/ HandleRefined
    \/ Expand
    \/ FallOffEnd

SpecSmall == Init /\ [][NextSmall]_vars

\* RunSQP is a sequential loop: a loop that can step does step, and a loop
\* that is over returns
SpecFair == SpecSmall /\ WF_vars(SQPIterate) /\ WF_vars(SQPReturn)

(***************************************************************************)
(* The same, with a reference recorded for the comparison of two calls     *)
(***************************************************************************)
HandleDirectObserved == HandleDirectCall(TRUE)
HandleRefinedObserved == HandleRefinedCall(TRUE)
FallOffEndObserved == FallOffEndCall(TRUE)

NextObserved ==
    \/ CallSmall
    \/ Accumulate
    \/ FinishForm
    \/ DecomposeSmall
    \/ NullScanStep
    \/ NullSpaceTooLarge
    \/ BeginSearch
    \/ ScanDirect
    \/ ScanRefine
    \/ ScanDone
    \/ Project
    \/ SQPIterate
    \/ SQPReturn
    \/ Translate
    \/ HandleDirectObserved
    \/ HandleRefinedObserved
    \/ Expand
    \/ FallOffEndObserved

SpecObserved == Init /\ [][NextObserved]_vars

(***************************************************************************)
(* Properties of a call                                                    *)
(***************************************************************************)
\* the call that has just returned was given equal-length inputs, n >= 3
ValidCallDone ==
    /\ pc = "done"
    /\ Len(world_point) = Len(feature_positions)
    /\ Len(world_point) >= 3

\* the call that has just returned took the early return
InvalidCallDone ==
    /\ pc = "done"
    /\ (Len(world_point) # Len(feature_positions) \/ Len(world_point) < 3)

\* C1: a call whose sequences differ in length or hold fewer than 3 elements
\* returns false at once: weights_, num_null_vectors, P_, U_, s_ and the two
\* output lists are as they were before the call.
C1_EarlyReturn ==
    [][ ( /\ pc \in {"idle", "done"}
          /\ \/ Len(world_point') # Len(feature_positions')
             \/ Len(world_point') < 3
             \/ Len(feature_positions') < 3 )
        => ( /\ pc' = "done"
             /\ ret' = FALSE
             /\ UNCHANGED <<weights_, num_null_vectors, P_, U_, s_,
                            solution_rotation, solution_translation>> ) ]_vars

\* a call with sequences of length 3 and 4 returned, on a solver whose
\* weights an earlier call had set
C1_Witness ==
    /\ InvalidCallDone
    /\ Len(feature_positions) >= 3
    /\ Len(world_point) >= 3
    /\ weights_ # <<>>

\* C2: a call that found a null space of more than 6 dimensions returns false,
\* and no candidate was projected, refined or passed to HandleSolution, and
\* the output lists hold nothing.
C2_NullSpaceTooLarge ==
    (ValidCallDone /\ num_null_vectors_l > 6)
        => /\ ret = FALSE
           /\ num_projected = 0
           /\ num_handled = 0
           /\ solution_rotation = <<>>
           /\ solution_translation = <<>>

\* a call returned after counting 7 or more null directions
C2_Witness == ValidCallDone /\ num_null_vectors_l > 6 /\ ~s_underrun

\* C3: a call with equal-length inputs, n >= 3, and a null space of at most 6
\* dimensions returns true and leaves at least one (rotation, translation)
\* pair in the output lists, which have equal length.
C3_ReturnsSolutions ==
    (ValidCallDone /\ num_null_vectors_l <= 6)
        => /\ ret = TRUE
           /\ Len(solution_rotation) >= 1
           /\ Len(solution_rotation) = Len(solution_translation)

\* an orthogonal matrix with determinant +1, within the tolerance the solver
\* itself uses for orthogonality
IsRotation(rhat) ==
    /\ LessThan(OrthogonalityError(rhat), Unit4,
                DEFAULT_ORTHOGONALITY_SQUARED_ERROR_THRESHOLD)
    /\ Determinant9x1(rhat) > 0

\* C6: every candidate passed to HandleSolution has an r_hat that is an
\* orthogonal matrix with determinant +1.
C6_CandidateIsRotation ==
    handed.pos > 0 => IsRotation(handed.solution.r_hat)

\* C7: two calls with the same inputs and configuration (and the same results
\* of the decomposition and of the step solver) pass the same candidate
\* (r, r_hat, t, num_iterations) at the same position to HandleSolution, and
\* return the same value.
C7_Deterministic ==
    /\ ( /\ ref.kind = "candidate"
         /\ handed.pos = ref.pos
         /\ feature_positions = ref.fp /\ world_point = ref.wp
         /\ U_ = ref.U /\ s_ = ref.s
         /\ handed.steps = ref.steps )
       => handed.solution = ref.value
    /\ ( /\ ref.kind = "return"
         /\ pc = "done"
         /\ feature_positions = ref.fp /\ world_point = ref.wp
         /\ U_ = ref.U /\ s_ = ref.s )
       => ret = ref.value

\* C8: RunSQP leaves its loop only when the step is at or below the tolerance
\* or the cap is reached, and every run of RunSQP returns.
C8_RunSQPTerminates ==
    /\ [][ (pc = "sqp" /\ pc' # "sqp")
           => (pc' = "trans" /\ (~AboveTolerance \/ ~BelowCap(step))) ]_vars
    /\ (pc = "sqp") ~> (pc = "trans")

\* RunSQP has returned after applying a correction step
C8_Witness == pc = "trans" /\ Len(deltas) >= 1

\* C9: the num_iterations RunSQP records is the number of correction steps it
\* applied.
C9_IterationsCounted ==
    pc = "trans" => solution[k].num_iterations = Len(deltas)

\* C10: the t of every candidate passed to HandleSolution is P_ applied to the
\* r_hat of that candidate.
C10_TranslationFromRhat ==
    handed.pos > 0 =>
        handed.solution.t = [num |-> MatVec39(P_.num, handed.solution.r_hat),
                             den |-> P_.den * Unit]

\* a refined candidate whose r_hat is not its r was passed to HandleSolution
C10_Witness ==
    /\ handed.pos > 0
    /\ handed.solution.num_iterations > 0
    /\ handed.solution.r # handed.solution.r_hat

(***************************************************************************)
(* Properties of the null-space scan                                       *)
(***************************************************************************)
\* the scan of the call is over and its counter has been incremented
ScanFinished ==
    \/ pc \in {"phase1", "accept", "project", "sqp", "trans", "handle", "expand"}
    \/ ValidCallDone

\* how many of s[j], s[j-1], .., s[0], taken in this order, are below the
\* rank tolerance before the first one that is not
RECURSIVE ConsecutiveBelow(_, _)
ConsecutiveBelow(s, j) ==
    IF j < 0 THEN 0
    ELSE IF At(s, j) * DEFAULT_RANK_TOLERANCE.den < DEFAULT_RANK_TOLERANCE.num
         THEN 1 + ConsecutiveBelow(s, j - 1)
         ELSE 0

C12_ScanInBounds ==
    /\ pc = "nullscan" => ScanIndex \in Idx9
    /\ (ValidCallDone /\ ConsecutiveBelow(s_, 8) = 9) => (ret = FALSE /\ ~s_underrun)

\* C13: after a call that reached the decomposition of Omega the solver-level
\* num_null_vectors holds the null-space size the call computed.
C13_MemberHoldsSize ==
    ValidCallDone => num_null_vectors = num_null_vectors_l

(***************************************************************************)
(* RunSQP on any start vector                                              *)
(***************************************************************************)
\* the 9-vectors RunSQP is started from: the rotations, their negations
\* (determinant -1) and a matrix that is not orthogonal, in either sign
StartVectors ==
    {Scale9(Unit, R) : R \in Rotations}
        \cup {Neg9(Scale9(Unit, R)) : R \in Rotations}
        \cup {EigenSkew, Neg9(EigenSkew)}

\* RunSQP(r0) is entered by a solver whose projector has been chosen; e keeps
\* r0, and solution[0] is the object the result is assigned to
CallRunSQP(r0) ==
    /\ pc \in {"idle", "trans"}
    /\ NearestRotationMatrix' =
          IF parameters_.nearest_rotation_method = "FOAM" THEN "FOAM" ELSE "SVD"
    /\ e' = [v |-> r0, sqrt3_den |-> FALSE]
    /\ solution' = [FreshSolutions EXCEPT ![0].r = r0]
    /\ k' = 0
    /\ r' = r0
    /\ delta_squared_norm' = DoubleMax
    /\ step' = 0
    /\ deltas' = <<>>
    /\ pc' = "sqp"
    /\ UNCHANGED <<otherVars, parameters_, weights_, num_null_vectors, P_, U_, s_, outVars,
                   argVars, ret, i, formVars, num_null_vectors_l, point_mean,
                   min_sq_error, num_eigen_points, c, loop, histVars, ref>>

EnterRunSQP == \E r0 \in StartVectors : CallRunSQP(r0)

NextRunSQP ==
    \/ EnterRunSQP
    \/ SQPIterate
    \/ SQPReturn

SpecRunSQP == Init /\ [][NextRunSQP]_vars

(***************************************************************************)
(* Properties of RunSQP                                                    *)
(***************************************************************************)
\* C14: a refinement whose correction stays above the step-norm tolerance
\* applies more than one correction step before it stops.
C14_MoreThanOneStep ==
    (/\ pc = "trans"
     /\ deltas # <<>>
     /\ SquaredNorm9(deltas[Len(deltas)]) * DEFAULT_SQP_SQUARED_TOLERANCE.den
            > DEFAULT_SQP_SQUARED_TOLERANCE.num * Unit2)
        => Len(deltas) > 1

\* C15: when RunSQP returns, solution.r is the iterated vector, negated
\* exactly when its determinant is negative, and r_hat is the projection of
\* solution.r exactly when the absolute determinant exceeds
\* sqp_det_threshold, solution.r itself otherwise.
C15_SignAndProjection ==
    [][(pc = "sqp" /\ pc' = "trans") =>
         LET det_r == Determinant9x1(r)
             det_abs == IF det_r < 0 THEN -det_r ELSE det_r
             sol == solution'[k]
         IN  /\ sol.r = (IF det_r < 0 THEN Neg9(r) ELSE r)
             /\ sol.r_hat =
                  (IF GreaterThan(det_abs, Unit3, parameters_.sqp_det_threshold)
                   THEN CallNearestRotationMatrix(NearestRotationMatrix, sol.r)
                   ELSE sol.r)]_vars

\* RunSQP has returned an iterate of negative determinant, negated and then
\* projected
C15_Witness ==
    /\ pc = "trans"
    /\ Len(deltas) = 1
    /\ Determinant9x1(Add9(e.v, deltas[1])) < 0
    /\ solution[k].r = Neg9(Add9(e.v, deltas[1]))
    /\ solution[k].r_hat # solution[k].r

(***************************************************************************)
(* Properties of the search                                                *)
(***************************************************************************)
\* the indices of the first phase that lie before j
ScannedBefore(j) == (9 - num_eigen_points)..(j - 1)

\* how many of them have an eigenvector that passes the orthogonality test,
\* and how many have one that fails it
ScannedDirect(j) ==
    Cardinality({m \in ScannedBefore(j) : NearlyOrthogonal(TimesSQRT3(At(U_, m)))})
ScannedRefined(j) ==
    Cardinality({m \in ScannedBefore(j) : ~NearlyOrthogonal(TimesSQRT3(At(U_, m)))})

\* C16: in the first phase an index whose eigenvector e is nearly orthogonal
\* yields exactly one scored candidate, r_hat = det(e) * e with 0 iterations
\* and no RunSQP; any other index yields exactly two RunSQP runs, seeded from
\* the projection of e and then of -e, each scored once.
C16_FirstPhase ==
    /\ pc = "phase1" =>
          /\ num_handled = ScannedDirect(i) + 2 * ScannedRefined(i)
          /\ num_projected = 2 * ScannedRefined(i)
    /\ (pc = "phase1" /\ i > 9 - num_eigen_points
            /\ NearlyOrthogonal(TimesSQRT3(At(U_, i - 1)))) =>
          /\ e = TimesSQRT3(At(U_, i - 1))
          /\ handed.pos = num_handled
          /\ handed.steps = <<>>
          /\ handed.solution.num_iterations = 0
          /\ handed.solution.r_hat =
                (IF Determinant9x1(e.v) < 0 THEN Neg9(e.v) ELSE e.v)
    /\ (pc = "sqp" /\ loop = "scan" /\ step = 0) =>
          /\ e = TimesSQRT3(At(U_, i))
          /\ ~NearlyOrthogonal(e)
          /\ num_projected = 2 * ScannedRefined(i) + k + 1
          /\ num_handled = ScannedDirect(i) + 2 * ScannedRefined(i) + k
          /\ r = CallNearestRotationMatrix(NearestRotationMatrix,
                                           IF k = 0 THEN e.v ELSE Neg9(e.v))

\* the first phase is over, and it met an eigenvector of negative determinant
\* that was accepted directly and one that was refined
C16_Witness ==
    /\ pc = "phase1"
    /\ i = 9
    /\ ScannedRefined(9) >= 1
    /\ \E m \in ScannedBefore(9) :
          /\ NearlyOrthogonal(TimesSQRT3(At(U_, m)))
          /\ Determinant9x1(At(U_, m).v) < 0
    /\ num_handled = ScannedDirect(9) + 2 * ScannedRefined(9)

\* the candidates of refinements that HandleSolution has received
RefinedHandled == num_handled - ScannedDirect(i)

\* C17: candidates are processed one after another: RunSQP returns, then t is
\* computed, then HandleSolution is called, and only then the next projection
\* starts; the expansion condition is evaluated with every earlier candidate
\* scored, both signs of the previous index included.
C17_OneAfterAnother ==
    /\ [](pc \in {"phase1", "accept", "project", "expand"}
              => RefinedHandled = num_projected)
    /\ [](pc \in {"sqp", "trans", "handle"} => RefinedHandled = num_projected - 1)
    /\ [](pc = "expand" => (num_projected % 2 = 0 /\ k = (IF c > 1 THEN 1 ELSE k)))
    /\ [][/\ pc = "sqp" => pc' \in {"sqp", "trans"}
          /\ pc = "trans" => (pc' = "handle" /\ solution'[k].t # Indeterminate)
          /\ pc = "handle" =>
                /\ pc' \in {"project", "phase1", "expand"}
                /\ num_handled' = num_handled + 1
                /\ handed'.pos = num_handled'
                /\ handed'.solution.r_hat = solution[k].r_hat
                /\ handed'.solution.t = solution[k].t
                /\ min_sq_error' <= min_sq_error
          /\ pc' = "project" => pc \in {"phase1", "expand", "handle"}
          /\ (pc = "handle" /\ pc' = "project") => (k = 0 /\ k' = 1)
          /\ min_sq_error' # min_sq_error => pc \in {"accept", "handle", "nullscan", "expand"}
         ]_vars

\* the expansion condition is about to be evaluated for a second index, after
\* both candidates of the first were scored
C17_Witness ==
    /\ pc = "expand"
    /\ c = 2
    /\ num_projected >= 2
    /\ RefinedHandled = num_projected
    /\ min_sq_error < DoubleMax

(***************************************************************************)
(* Properties of the adaptive expansion                                    *)
(***************************************************************************)
\* C18: the expansion refines the index it looks at whenever that index is
\* one of 0..8 and the running minimum cost exceeds 3 times its eigenvalue;
\* the last valid index, 0, is no exception.
C18_EveryValidIndexRefined ==
    [][(/\ pc = "expand"
        /\ 9 - num_eigen_points - c \in Idx9
        /\ min_sq_error > 3 * At(s_, 9 - num_eigen_points - c))
          => (pc' = "project" /\ e' = At(U_, 9 - num_eigen_points - c))]_vars

\* C19: the candidates passed to HandleSolution in one call, first phase and
\* expansion together, never outnumber the 18 reserved solution slots.
C19_WithinSlots == num_handled <= MaxSolutions

\* a call that refined two null directions and every index the expansion
\* admits: 16 candidates
C19_Witness ==
    /\ pc = "expand"
    /\ num_eigen_points = 2
    /\ num_handled = 16

\* C20: the expansion loop completes at most 8 - num_eigen_points iterations,
\* whatever the costs are, and its condition and body read s_ and U_ only at
\* indices in 0..8.
C20_ExpansionBounded ==
    /\ pc = "expand" =>
          /\ 9 - num_eigen_points - c \in Idx9
          /\ c - 1 <= 8 - num_eigen_points
    /\ (loop = "expand" /\ pc \in {"project", "sqp", "trans", "handle"}) =>
          /\ 9 - num_eigen_points - c \in Idx9
          /\ c <= 8 - num_eigen_points
          /\ e = At(U_, 9 - num_eigen_points - c)

\* the loop has completed 8 - num_eigen_points iterations and ends on the
\* index test alone: the cost still exceeds 3 times the eigenvalue it reads
C20_Witness ==
    /\ pc = "expand"
    /\ c - 1 = 8 - num_eigen_points
    /\ min_sq_error > 3 * At(s_, 9 - num_eigen_points - c)

(***************************************************************************)
(* Properties of the completed quadratic form                              *)
(***************************************************************************)
\* the upper triangle the accumulation loop of the call has produced
AccumulatedOmega ==
    AccumulatedForm(feature_positions, world_point, weights_, Len(world_point)).Omega_

AfterDecomposition ==
    pc \in {"nullscan", "phase1", "accept", "project", "sqp", "trans", "handle",
            "expand"}

\* C22: from the decomposition to the end of the call no step changes Omega_,
\* P_, U_ or s_: the null-space scan, the candidate loops, RunSQP, the
\* translation and HandleSolution only read them.
C22_EigenbasisReadOnly ==
    [][AfterDecomposition => UNCHANGED <<Omega_, P_, U_, s_>>]_vars

\* a call that refined at least two eigenvectors and scored every candidate
\* has returned
C22_Witness ==
    /\ ValidCallDone
    /\ num_projected >= 4
    /\ num_handled >= num_projected

(***************************************************************************)
(* LiGTPositionEstimator                                                   *)
(***************************************************************************)
\* how many tracks a reconstruction holds, and how often one view may occur
\* in triplets that are added directly
MaxTracks == 2
MaxDirect == 2

ViewIds == 0..3

\* track->ViewIds() of the tracks a reconstruction may hold, each in the
\* order its unordered set is iterated
TrackPool == { <<1, 2>>, <<1, 2, 3>>, <<0, 1, 2>>, <<3, 2, 1, 0>> }

\* reconstruction_.TrackIds(): track t_id is the entry t_id + 1
Reconstructions == UNION { [1..n -> TrackPool] : n \in 0..MaxTracks }

\* m[key] = val
Put(m, key, val) == [x \in DOMAIN m \cup {key} |-> IF x = key THEN val ELSE m[x]]

\* an insertion that overwrites the value of a key that is present
InsertOrAssign(m, key, val) == Put(m, key, val)

\* InsertIfNotPresent of map_util.h
InsertIfNotPresent(m, key, val) == IF key \in DOMAIN m THEN m ELSE Put(m, key, val)

\* m[key] += 1, the entry being created with 0 when it is missing
Increment(m, key) == Put(m, key, (IF key \in DOMAIN m THEN m[key] ELSE 0) + 1)

\* m[key].push_back(..) for each element of items
PushBackAll(m, key, items) ==
    Put(m, key, (IF key \in DOMAIN m THEN m[key] ELSE <<>>) \o items)

\* linear_system_index_.size() - 1 converted to the int the map holds: the
\* subtraction is done in size_t, 0 - 1 is the largest size_t and its
\* conversion to int is -1
SizeMinusOne(m) ==
    IF Cardinality(DOMAIN m) = 0 THEN -1 ELSE Cardinality(DOMAIN m) - 1

\* AddTripletConstraint on the two maps
AddTripletConstraint(num, index, view_triplet) ==
    LET n1 == Increment(num, view_triplet[1])
        n2 == Increment(n1, view_triplet[2])
        n3 == Increment(n2, view_triplet[3])
        i1 == InsertIfNotPresent(index, view_triplet[1], SizeMinusOne(index))
        i2 == InsertIfNotPresent(i1, view_triplet[2], SizeMinusOne(i1))
        i3 == InsertIfNotPresent(i2, view_triplet[3], SizeMinusOne(i2))
    IN  [num |-> n3, index |-> i3]

\* AddTripletConstraint for the triplets trs[from..], one after another
RECURSIVE AddTripletConstraints(_, _, _, _)
AddTripletConstraints(num, index, trs, from) ==
    IF from > Len(trs) THEN [num |-> num, index |-> index]
    ELSE LET est == AddTripletConstraint(num, index, trs[from])
         IN  AddTripletConstraints(est.num, est.index, trs, from + 1)

\* the views in first-seen order, after the views of vs[from..] were seen
RECURSIVE SeenAfter(_, _, _)
SeenAfter(order, vs, from) ==
    IF from > Len(vs) THEN order
    ELSE SeenAfter(IF \E j \in 1..Len(order) : order[j] = vs[from]
                   THEN order ELSE Append(order, vs[from]),
                   vs, from + 1)

\* the views of the triplets trs, in the order they are passed on
RECURSIVE Flatten(_, _)
Flatten(trs, from) ==
    IF from > Len(trs) THEN <<>> ELSE trs[from] \o Flatten(trs, from + 1)

\* what GetBestBaseViews may return for a track: the pair of views of the
\* largest theta, which may be any pair, or the value-initialised pair when
\* no theta exceeds theta_max = 0
GetBestBaseViews(view_ids) ==
    { <<view_ids[p[1]], view_ids[p[2]]>> :
        p \in { q \in (1..Len(view_ids)) \X (1..Len(view_ids)) : q[1] < q[2] } }
        \cup { <<0, 0>> }

\* the triplets the inner loop of FindTripletsForTracks adds for a track
TripletsForTrack(view_ids, base_views) ==
    LET others == SelectSeq(view_ids,
                            LAMBDA cur_id : cur_id # base_views[1]
                                            /\ cur_id # base_views[2])
    IN  [j \in 1..Len(others) |-> <<base_views[1], others[j], base_views[2]>>]

\* CalculateBCDForTrack: the BCD of a triplet of a track
CalculateBCDForTrack(t_id, trs) ==
    [j \in 1..Len(trs) |-> [track |-> t_id, triplet |-> trs[j]]]

\* the range of a sequence
Range(q) == { q[j] : j \in 1..Len(q) }

\* a positions map without its entries; clear() leaves none
ClearedPositions_Kept(p) == p

\* CHECK_NOTNULL(positions)->clear()
ClearedPositions(p) == EmptyMap

\* the position of the constant camera and a segment of the eigenvector
Origin == [kind |-> "zero", at |-> 0]
Segment(index) == [kind |-> "segment", at |-> 3 * index]

\* what the map of the caller may hold when EstimatePositions is entered
PriorPositions == { positions, [v \in {3} |-> Segment(7)] }

\* EstimatePositions is entered: the output and the members are cleared
CallEstimatePositions(rec, prior) ==
    /\ pc_ligt \in {"idle", "done"}
    /\ reconstruction_' = rec
    /\ positions' = ClearedPositions(prior)
    /\ num_triplets_for_view_' = EmptyMap
    /\ linear_system_index_' = EmptyMap
    /\ BCDs_' = EmptyMap
    /\ triplets_for_tracks_' = EmptyMap
    /\ constraint_matrix' = NoMatrix
    /\ track_t' = 0
    /\ seen_order' = <<>>
    /\ sparse_matrix_entries' = {}
    /\ pc_ligt' = "find"
    /\ UNCHANGED <<sqpnpVars, ldVars>>

EstimatePositions ==
    \E rec \in Reconstructions, prior \in PriorPositions :
        CallEstimatePositions(rec, prior)

\* one iteration of the track loop of FindTripletsForTracks.  When the base
\* views are not views of the track, CalculateBCDForTrack dereferences the
\* null feature of such a view: the call may end there.
FindTripletsForTrack ==
    /\ pc_ligt = "find"
    /\ track_t < Len(reconstruction_)
    /\ LET t_id == track_t
           view_ids_for_track == reconstruction_[track_t + 1]
       IN  IF Len(view_ids_for_track) < 3
           THEN /\ UNCHANGED <<num_triplets_for_view_, linear_system_index_,
                               triplets_for_tracks_, BCDs_, seen_order>>
                /\ pc_ligt' = "find"
           ELSE \E base_views \in GetBestBaseViews(view_ids_for_track) :
                  LET trs == TripletsForTrack(view_ids_for_track, base_views)
                      est == AddTripletConstraints(num_triplets_for_view_,
                                                   linear_system_index_, trs, 1)
                  IN  /\ num_triplets_for_view_' = est.num
                      /\ linear_system_index_' = est.index
                      /\ seen_order' = SeenAfter(seen_order, Flatten(trs, 1), 1)
                      /\ triplets_for_tracks_' =
                            PushBackAll(triplets_for_tracks_, t_id, trs)
                      /\ BCDs_' = PushBackAll(BCDs_, t_id,
                                              CalculateBCDForTrack(t_id, trs))
                      /\ pc_ligt' \in
                            IF base_views[1] \in Range(view_ids_for_track)
                            THEN {"find"} ELSE {"find", "aborted"}
    /\ track_t' = track_t + 1
    /\ UNCHANGED <<reconstruction_, positions, constraint_matrix,
                   sparse_matrix_entries, sqpnpVars, ldVars>>

\* the track loop is over
FindTripletsDone ==
    /\ pc_ligt = "find"
    /\ track_t >= Len(reconstruction_)
    /\ pc_ligt' = "system"
    /\ UNCHANGED <<reconstruction_, num_triplets_for_view_, linear_system_index_,
                   triplets_for_tracks_, BCDs_, positions, constraint_matrix,
                   track_t, seen_order, sparse_matrix_entries, sqpnpVars, ldVars>>

\* the alternative interface: a triplet is added to an estimator that is not
\* inside EstimatePositions
AddTripletConstraintCall(view_triplet) ==
    /\ pc_ligt = "idle"
    /\ LET est == AddTripletConstraint(num_triplets_for_view_,
                                       linear_system_index_, view_triplet)
       IN  /\ \A v \in DOMAIN est.num : est.num[v] <= MaxDirect
           /\ num_triplets_for_view_' = est.num
           /\ linear_system_index_' = est.index
    /\ seen_order' = SeenAfter(seen_order, view_triplet, 1)
    /\ UNCHANGED <<reconstruction_, triplets_for_tracks_, BCDs_, positions,
                   constraint_matrix, pc_ligt, track_t, sparse_matrix_entries,
                   sqpnpVars, ldVars>>

AddTripletDirectly ==
    \E view_triplet \in ViewIds \X ViewIds \X ViewIds :
        AddTripletConstraintCall(view_triplet)

\* a test that also rejects row 0 and column 0
IsInvalidEntry_OffByOne(row, col) == row <= 0 \/ col <= 0

\* the test CreateLinearSystem skips an accumulated entry on
IsInvalidEntry(row, col) == row < 0 \/ col < 0

\* AddTripletConstraintToSparseMatrix and AddTripletConstraintToSymmetricMatrix:
\* the keys one triplet adds to sparse_matrix_entries, each with the views its
\* row and its column stem from
AddTripletConstraintToSparseMatrix(index, view_triplet) ==
    LET view_indices == [a \in 1..3 |-> 3 * index[view_triplet[a]]]
    IN  { [row |-> view_indices[p[1]] + p[3], col |-> view_indices[p[2]] + p[4],
           row_view |-> view_triplet[p[1]], col_view |-> view_triplet[p[2]]] :
            p \in { q \in (1..3) \X (1..3) \X (0..2) \X (0..2) :
                      ~(view_indices[q[1]] > view_indices[q[2]]) } }

\* CreateLinearSystem: the entries of all triplets, the entries that are kept
\* and the size of the matrix.  A negative size is not a size resize accepts:
\* the call may end there.
CreateLinearSystem ==
    /\ pc_ligt = "system"
    /\ LET num_views == Cardinality(DOMAIN num_triplets_for_view_)
           accumulated ==
               UNION { UNION { AddTripletConstraintToSparseMatrix(
                                   linear_system_index_, triplets_for_tracks_[t_id][j])
                               : j \in 1..Len(triplets_for_tracks_[t_id]) }
                       : t_id \in DOMAIN triplets_for_tracks_ }
           triplet_list ==
               { <<x.row, x.col>> :
                   x \in { y \in accumulated : ~IsInvalidEntry(y.row, y.col) } }
       IN  /\ sparse_matrix_entries' = accumulated
           /\ constraint_matrix' = [rows |-> (num_views - 1) * 3,
                                    cols |-> (num_views - 1) * 3,
                                    entries |-> triplet_list]
           /\ pc_ligt' \in IF (num_views - 1) * 3 < 0 THEN {"solve", "aborted"}
                           ELSE {"solve"}
    /\ UNCHANGED <<reconstruction_, num_triplets_for_view_, linear_system_index_,
                   triplets_for_tracks_, BCDs_, positions, track_t, seen_order,
                   sqpnpVars, ldVars>>

\* the eigenvector is computed and the positions are written; EstimatePositions
\* returns.  The eigensolver is a library: it either delivers a vector or
\* ends the call.
SolveAndFill ==
    /\ pc_ligt = "solve"
    /\ \E converged \in BOOLEAN :
          IF converged
          THEN /\ positions' =
                    [v \in DOMAIN positions \cup DOMAIN linear_system_index_ |->
                        IF v \in DOMAIN linear_system_index_
                        THEN IF linear_system_index_[v] < 0 THEN Origin
                             ELSE Segment(linear_system_index_[v])
                        ELSE positions[v]]
               /\ pc_ligt' = "done"
          ELSE /\ positions' = positions
               /\ pc_ligt' = "aborted"
    /\ UNCHANGED <<reconstruction_, num_triplets_for_view_, linear_system_index_,
                   triplets_for_tracks_, BCDs_, constraint_matrix, track_t,
                   seen_order, sparse_matrix_entries, sqpnpVars, ldVars>>

NextLiGT ==
    \/ EstimatePositions
    \/ FindTripletsForTrack
    \/ FindTripletsDone
    \/ CreateLinearSystem
    \/ SolveAndFill
    \/ AddTripletDirectly

SpecLiGT == Init /\ [][NextLiGT]_vars

(***************************************************************************)
(* Properties of LiGTPositionEstimator                                     *)
(***************************************************************************)
\* the views that occur in a triplet of the call
TripletViews ==
    UNION { UNION { Range(triplets_for_tracks_[t_id][j])
                    : j \in 1..Len(triplets_for_tracks_[t_id]) }
            : t_id \in DOMAIN triplets_for_tracks_ }

\* C23: linear_system_index_ maps the k views seen so far to -1, 0, .., k-2
\* in first-seen order, num_triplets_for_view_ has the same keys, and a view
\* that has an index keeps it while triplets are added.
C23_FirstSeenIndices ==
    /\ [](/\ DOMAIN linear_system_index_ = Range(seen_order)
          /\ Cardinality(Range(seen_order)) = Len(seen_order)
          /\ \A j \in 1..Len(seen_order) :
                linear_system_index_[seen_order[j]] = j - 2
          /\ DOMAIN num_triplets_for_view_ = DOMAIN linear_system_index_)
    /\ [][pc_ligt' = pc_ligt =>
            \A v \in DOMAIN linear_system_index_ :
                /\ v \in DOMAIN linear_system_index_'
                /\ linear_system_index_'[v] = linear_system_index_[v]]_vars

\* four views were added directly, one of them in two triplets
C23_Witness ==
    /\ pc_ligt = "idle"
    /\ Len(seen_order) = 4
    /\ \E v \in DOMAIN num_triplets_for_view_ : num_triplets_for_view_[v] = 2
    /\ linear_system_index_[seen_order[1]] = -1

\* C24: when EstimatePositions has returned, positions has an entry for
\* exactly the views that occur in a triplet of this call, and the view of
\* linear-system index -1 is at the origin.
C24_PositionsOfLatestCall ==
    pc_ligt = "done" =>
        /\ DOMAIN positions = TripletViews
        /\ \A v \in DOMAIN positions :
              linear_system_index_[v] = -1 => positions[v] = Origin

\* a call on three views has returned; the entry of view 3, which the map
\* held before, is gone
C24_Witness ==
    /\ pc_ligt = "done"
    /\ TripletViews = {0, 1, 2}
    /\ DOMAIN positions = {0, 1, 2}
    /\ \E v \in DOMAIN positions :
          linear_system_index_[v] = -1 /\ positions[v] = Origin

\* C25: an accumulated entry is left out of the constraint matrix exactly
\* when the view of its row or of its column is the constant camera, and
\* every entry of the matrix has 0 <= row, col < 3 * (N - 1).
C25_DroppedEntries ==
    pc_ligt \in {"solve", "done"} =>
        /\ \A x \in sparse_matrix_entries :
              (<<x.row, x.col>> \notin constraint_matrix.entries)
                  <=> (\/ linear_system_index_[x.row_view] = -1
                       \/ linear_system_index_[x.col_view] = -1)
        /\ \A y \in constraint_matrix.entries :
              /\ 0 <= y[1] /\ y[1] < 3 * (Cardinality(TripletViews) - 1)
              /\ 0 <= y[2] /\ y[2] < 3 * (Cardinality(TripletViews) - 1)

\* a matrix was built from entries of which some were dropped and some kept,
\* row 0 among the kept
C25_Witness ==
    /\ pc_ligt = "solve"
    /\ \E x \in sparse_matrix_entries : <<x.row, x.col>> \notin constraint_matrix.entries
    /\ \E y \in constraint_matrix.entries : y[1] = 0
    /\ \E y \in constraint_matrix.entries : y[2] = constraint_matrix.cols - 1

\* C26: every track with k >= 3 views that the loop has passed has k - 2
\* triplets (first, v, second) whose base views are two distinct views of the
\* track and whose v is another view of it, and as many BCDs; a track with
\* fewer views has none.
C26_TripletsPerTrack ==
    pc_ligt \in {"find", "system", "solve", "done"} =>
        \A t_id \in 0..(track_t - 1) :
            LET view_ids == reconstruction_[t_id + 1]
            IN  IF Len(view_ids) < 3
                THEN t_id \notin DOMAIN triplets_for_tracks_
                ELSE /\ t_id \in DOMAIN triplets_for_tracks_
                     /\ t_id \in DOMAIN BCDs_
                     /\ Len(triplets_for_tracks_[t_id]) = Len(view_ids) - 2
                     /\ Len(BCDs_[t_id]) = Len(triplets_for_tracks_[t_id])
                     /\ \A j \in 1..Len(triplets_for_tracks_[t_id]) :
                           LET tr == triplets_for_tracks_[t_id][j]
                           IN  /\ tr[1] # tr[3]
                               /\ {tr[1], tr[2], tr[3]} \subseteq Range(view_ids)
                               /\ tr[2] \notin {tr[1], tr[3]}

\* C27: the dimension CreateLinearSystem passes to resize is not negative.
C27_DimensionNotNegative ==
    constraint_matrix.rows >= 0 /\ constraint_matrix.cols >= 0

(***************************************************************************)
(* LagrangeDualRotationEstimator                                           *)
(***************************************************************************)
\* the views a call may name
RotationViewIds == 1..3

\* the view pairs between the views of a set
PairsOf(views) == { p \in views \X views : p[1] < p[2] }

\* the views that are an endpoint of a view pair
Endpoints(pairs) == UNION { {p[1], p[2]} : p \in pairs }

\* ViewIdToAscentIndex: the views get the indices 0, 1, .. in ascending order
ViewIdToAscentIndex(views) ==
    [v \in views |-> Cardinality({ u \in views : u < v })]

\* view_id_to_index_[key] for every key of a set: operator[] inserts a
\* missing key with the value 0
SubscriptAll(m, keys) ==
    [x \in DOMAIN m \cup keys |-> IF x \in DOMAIN m THEN m[x] ELSE 0]

\* CreateSDPSolver: a solver for the three supported types, null otherwise
CreateSDPSolver(solver_type) ==
    IF solver_type \in SolverTypes THEN solver_type ELSE None

\* SetRAOption
SetRAOption ==
    /\ pc_ld \in {"idle", "done", "bound"}
    /\ \E solver_type \in AnySolverType :
          /\ solver_type # options_.solver_type
          /\ options_' = [solver_type |-> solver_type]
    /\ UNCHANGED <<view_id_to_index_, images_num_, view_pairs, global_rotations,
                   solver, degree_matrix, adjacency_matrix, pc_ld, null_calls,
                   sqpnpVars, ligtVars>>

\* EstimateRotations up to the creation of the solver: the index map is
\* built only when it is empty, FillinRelativeGraph subscripts it with the
\* endpoints of the view pairs
CallEstimateRotations(pairs, rotations) ==
    /\ pc_ld \in {"idle", "done", "bound"}
    /\ Cardinality(pairs) > 0
    /\ Cardinality(rotations) > 0
    /\ images_num_' = Cardinality(rotations)
    /\ view_pairs' = pairs
    /\ global_rotations' = rotations
    /\ view_id_to_index_' =
          SubscriptAll(IF DOMAIN view_id_to_index_ = {}
                       THEN ViewIdToAscentIndex(rotations)
                       ELSE view_id_to_index_,
                       Endpoints(pairs))
    /\ solver' = CreateSDPSolver(options_.solver_type)
    /\ null_calls' = {}
    /\ pc_ld' = "solver"
    /\ UNCHANGED <<options_, degree_matrix, adjacency_matrix, sqpnpVars, ligtVars>>

EstimateRotations ==
    \E rotations \in (SUBSET RotationViewIds) \ {{}} :
        \E pairs \in (SUBSET PairsOf(rotations)) \ {{}} :
            CallEstimateRotations(pairs, rotations)

\* SetCovariance, SetAdjacentEdges, Solve and GetSolution are called on the
\* solver.  A call through a null pointer ends the call at the first of them
\* or goes on through all four.
UseSolver ==
    /\ pc_ld = "solver"
    /\ IF solver = None
       THEN \/ /\ null_calls' = {"SetCovariance"}
               /\ pc_ld' = "aborted"
            \/ /\ null_calls' = {"SetCovariance", "SetAdjacentEdges", "Solve",
                                 "GetSolution"}
               /\ pc_ld' = "retrieve"
       ELSE /\ null_calls' = null_calls
            /\ pc_ld' = "retrieve"
    /\ UNCHANGED <<options_, view_id_to_index_, images_num_, view_pairs,
                   global_rotations, solver, degree_matrix, adjacency_matrix,
                   sqpnpVars, ligtVars>>

\* RetrieveRotations subscripts the index map with every view of
\* global_rotations; EstimateRotations returns
RetrieveRotations ==
    /\ pc_ld = "retrieve"
    /\ view_id_to_index_' = SubscriptAll(view_id_to_index_, global_rotations)
    /\ pc_ld' = "done"
    /\ UNCHANGED <<options_, images_num_, view_pairs, global_rotations, solver,
                   degree_matrix, adjacency_matrix, null_calls, sqpnpVars, ligtVars>>

\* the first loop of ComputeErrorBound: degrees[i] is the number of
\* endpoints of view pairs that have index i
Degrees(pairs, index, at) ==
    Cardinality({ p \in pairs : index[p[1]] = at })
        + Cardinality({ p \in pairs : index[p[2]] = at })

\* the number of triplets (at, at, degrees[at]) the second loop pushes
DTripletsAt(pairs, index, at) ==
    Cardinality({ p \in pairs : index[p[1]] = at })
        + Cardinality({ p \in pairs : index[p[2]] = at })

\* the number of triplets (row, col, 1.0) the second loop pushes
ATripletsAt(pairs, index, row, col) ==
    Cardinality({ p \in pairs : index[p[1]] = row /\ index[p[2]] = col })
        + Cardinality({ p \in pairs : index[p[2]] = row /\ index[p[1]] = col })

\* ComputeErrorBound on the view pairs of the last call: setFromTriplets adds
\* up the triplets of one position.  With an index outside 0..N-1 the loops
\* write outside degrees: the call may end there.
ComputeErrorBound ==
    /\ pc_ld = "done"
    /\ LET N == images_num_
           index == SubscriptAll(view_id_to_index_, Endpoints(view_pairs))
       IN  /\ view_id_to_index_' = index
           /\ adjacency_matrix' =
                 [rc \in (0..(N - 1)) \X (0..(N - 1)) |->
                     ATripletsAt(view_pairs, index, rc[1], rc[2])]
           /\ degree_matrix' =
                 [at \in 0..(N - 1) |->
                     DTripletsAt(view_pairs, index, at)
                         * Degrees(view_pairs, index, at)]
           /\ pc_ld' \in
                 IF \A v \in Endpoints(view_pairs) : index[v] \in 0..(N - 1)
                 THEN {"bound"} ELSE {"bound", "aborted"}
    /\ UNCHANGED <<options_, images_num_, view_pairs, global_rotations, solver,
                   null_calls, sqpnpVars, ligtVars>>

NextLagrange ==
    \/ SetRAOption
    \/ EstimateRotations
    \/ UseSolver
    \/ RetrieveRotations
    \/ ComputeErrorBound

SpecLagrange == Init /\ [][NextLagrange]_vars

(***************************************************************************)
(* Properties of LagrangeDualRotationEstimator                             *)
(***************************************************************************)
\* the sum of row at of L = D - A
RECURSIVE RowSumOfA(_, _)
RowSumOfA(at, col) ==
    IF col < 0 THEN 0
    ELSE adjacency_matrix[<<at, col>>] + RowSumOfA(at, col - 1)

\* C28: after ComputeErrorBound D(i,i) is the number of view pairs incident
\* to the view of index i, and every row of L = D - A sums to zero.
C28_DegreeMatrix ==
    pc_ld = "bound" =>
        \A at \in DOMAIN degree_matrix :
            /\ degree_matrix[at] =
                  Cardinality({ p \in view_pairs :
                                  at \in {view_id_to_index_[p[1]],
                                          view_id_to_index_[p[2]]} })
            /\ degree_matrix[at] - RowSumOfA(at, images_num_ - 1) = 0

\* C29: when EstimateRotations has returned, every view of global_rotations
\* and every endpoint of view_pairs has an index in 0..N-1 of its own.
C29_IndexOfItsOwn ==
    pc_ld \in {"done", "bound"} =>
        LET views == global_rotations \cup Endpoints(view_pairs)
        IN  /\ views \subseteq DOMAIN view_id_to_index_
            /\ \A v \in views : view_id_to_index_[v] \in 0..(images_num_ - 1)
            /\ \A u, v \in views :
                  u # v => view_id_to_index_[u] # view_id_to_index_[v]

\* C30: SetCovariance, SetAdjacentEdges, Solve and GetSolution are never
\* called on a null solver.
C30_NoCallOnNull ==
    null_calls = {}

=============================================================================
